---- MODULE Spec2Model ----
(***************************************************************************)
(* Proximity notification service (ITZY-MAYO-API).                         *)
(*                                                                         *)
(* State: the three Firestore collections the service uses (schedule,      *)
(* fcm_token, notification_history), the wall clock, the Firebase app      *)
(* registry, and the position and local variables of every request that is *)
(* being handled.  A handler is split at its awaits on remote calls: each  *)
(* action is one remote call together with the synchronous code that runs  *)
(* until the next await.                                                   *)
(***************************************************************************)
EXTENDS Integers, Sequences, FiniteSets, TLC

\* ------------------------------------------------------------------ bounds
\* Number of steps the wall clock takes.
MaxTicks == 2

\* ------------------------------------------------------- program constants
\* locations.py line 83: `if distance_meters <= 100`
ProximityMeters == 100
\* locations.py line 111: `timedelta(minutes=10)`
CooldownMinutes == 10

\* ----------------------------------------------------------------- inputs
Users == {"u1", "u2"}
\* Users whose devices register tokens and send location updates.
Pingers == {"u1"}
\* The document ids the schedule collection hands out, in the store's native
\* order (Firestore orders a query without order_by by document name).
ScheduleIdOrder == <<"s1", "s2">>
ScheduleIds == {ScheduleIdOrder[i] : i \in 1..Len(ScheduleIdOrder)}
\* Document ids another writer of the collection chooses itself; they sort
\* after the generated ones.
ClientIdOrder == <<"x_s1">>
ClientIds == {ClientIdOrder[i] : i \in 1..Len(ClientIdOrder)}
StoreOrder == ScheduleIdOrder \o ClientIdOrder
\* Coordinates are offsets in meters from a reference point, north and east.
LatOffsets == {0, 100}
LonOffsets == {0, 50}
Titles == {"Gym"}
\* The schedule's date and time, as the client gave it.
Datetimes == {"2025-06-01T09:00Z"}
\* User ids with and without the character that joins a history key.
KeyUsers == {"u1", "u1_x"}
\* Request slots of the location endpoint; SerialSlots handles one request
\* at a time.
Requests == {"r1", "r2"}
SerialSlots == {"r1"}
\* Coordinates location updates are sent from.
PingLats == {0}
PingLons == {0}
\* Contents of the token field the devices store.
TokenStrings == {"", "tok"}
\* Minutes the wall clock advances in one step.
TickSteps == {5}
\* Bodies of PUT /schedules/{id}: the fields the client set.
UpdateBodies ==
    {[f \in {} |-> 0]}
    \cup {[latitude |-> lat] : lat \in LatOffsets}
    \cup {[longitude |-> lon] : lon \in LonOffsets}
    \cup {[latitude |-> 100, longitude |-> 50]}
    \cup {[title |-> t] : t \in Titles}

\* Python's None, and a present optional value.
None == <<>>
Some(v) == <<v>>
\* Python's None in a field whose other values are strings.
Null == "None"

\* Descriptions a client gives a schedule: none, or a text.
Descriptions == {None, Some("note")}
\* Bodies of PUT /schedules/{id} sent to the handlers that answer: those above,
\* a new title, a title set to null and a new description.
PutBodies ==
    UpdateBodies
    \cup {[title |-> "Run"], [title |-> Null], [content |-> Some("memo")]}
\* Bodies of two partial coordinate updates.
PartialCoordinateBodies == {[latitude |-> 100], [longitude |-> 50]}

VARIABLES
    firebase_apps,          \* firebase_admin._apps is non-empty
    clock,                  \* datetime.now(timezone.utc), in minutes
    schedule,               \* collection "schedule": document id -> fields
    allocated,              \* document ids the collection has generated or seen
    fcm_token,              \* collection "fcm_token": user id -> fields
    notification_history,   \* collection "notification_history": doc id -> fields
    req,                    \* request slot -> position and locals of the handler
    call                    \* schedule request slot -> position, locals, response

vars == <<firebase_apps, clock, schedule, allocated, fcm_token,
          notification_history, req, call>>

\* ---------------------------------------------------------- pure functions

\* google.cloud.firestore GeoPoint(latitude, longitude)
GeoPoint(lat, lon) == [latitude |-> lat, longitude |-> lon]

\* isinstance(retrieved_geopoint, GeoPoint) after .pop("geoPoint", None)
HasGeoPoint(doc) == "geoPoint" \in DOMAIN doc

\* The dict handed to Schedule(**schedule_db_data).
ScheduleDbData(id, doc) ==
    [id |-> id,
     name |-> doc.title,
     firebase_userid |-> doc.userId,
     latitude |-> IF HasGeoPoint(doc) THEN Some(doc.geoPoint.latitude) ELSE None,
     longitude |-> IF HasGeoPoint(doc) THEN Some(doc.geoPoint.longitude) ELSE None,
     description |-> IF "content" \in DOMAIN doc THEN doc.content ELSE None,
     schedule_datetime |-> IF "datetime" \in DOMAIN doc THEN Some(doc.datetime)
                           ELSE None]

\* pydantic validation of ScheduleBase: the name, latitude, longitude and the
\* datetime are required, so None is rejected with a ValidationError; the
\* description is optional.
ScheduleValidates(data) ==
    /\ data.name # Null
    /\ data.latitude # None
    /\ data.longitude # None
    /\ data.schedule_datetime # None

\* Mutant of OwnerFilter: the query has no filter on userId.
OwnerFilterDropped(doc, firebase_userid) == TRUE

\* The equality filter FieldFilter("userId", "==", firebase_userid).
OwnerFilter(doc, firebase_userid) == doc.userId = firebase_userid

\* Document ids the query streams, in the store's order.
QueryStream(firebase_userid) ==
    SelectSeq(StoreOrder,
              LAMBDA s : s \in DOMAIN schedule
                         /\ OwnerFilter(schedule[s], firebase_userid))

\* get_schedules_by_user raises when one streamed document fails validation.
GetSchedulesRaises(firebase_userid) ==
    \E s \in DOMAIN schedule :
        /\ OwnerFilter(schedule[s], firebase_userid)
        /\ ~ScheduleValidates(ScheduleDbData(s, schedule[s]))

\* get_schedules_by_user: the list of Schedule models.
GetSchedulesByUser(firebase_userid) ==
    LET ids == QueryStream(firebase_userid)
    IN  [i \in 1..Len(ids) |-> ScheduleDbData(ids[i], schedule[ids[i]])]

\* geodesic(a, b).meters, squared; over these distances the ellipsoid is flat.
DistanceSq(lat1, lon1, lat2, lon2) ==
    (lat1 - lat2) * (lat1 - lat2) + (lon1 - lon2) * (lon1 - lon2)

\* `distance_meters <= 100`
WithinProximity(lat1, lon1, lat2, lon2) ==
    DistanceSq(lat1, lon1, lat2, lon2) <= ProximityMeters * ProximityMeters

\* Whether the loop body of one schedule sets found_proximate_schedule.
IsProximate(item, lat, lon) ==
    /\ item.latitude # None
    /\ item.longitude # None
    /\ WithinProximity(lat, lon, item.latitude[1], item.longitude[1])

\* Mutant of FirstProximate: the nearest proximate schedule is chosen.
NearestProximate(list, i, lat, lon) ==
    LET near == {j \in i..Len(list) : IsProximate(list[j], lat, lon)}
        d(j) == DistanceSq(lat, lon, list[j].latitude[1], list[j].longitude[1])
    IN  IF near = {} THEN 0
        ELSE CHOOSE j \in near : \A k \in near : d(j) <= d(k)

\* Mutant of FirstProximate: the first schedule that has coordinates is
\* chosen, whatever its distance.
RECURSIVE FirstWithCoordinates(_, _, _, _)
FirstWithCoordinates(list, i, lat, lon) ==
    IF i > Len(list) THEN 0
    ELSE IF list[i].latitude # None /\ list[i].longitude # None THEN i
    ELSE FirstWithCoordinates(list, i + 1, lat, lon)

\* The for loop with its break: index of the first proximate schedule from
\* position i on, 0 when the loop runs to its end.
RECURSIVE FirstProximate(_, _, _, _)
FirstProximate(list, i, lat, lon) ==
    IF i > Len(list) THEN 0
    ELSE IF IsProximate(list[i], lat, lon) THEN i
    ELSE FirstProximate(list, i + 1, lat, lon)

\* f"{user_id}_{schedule_id}"
HistoryDocId(user_id, schedule_id) == user_id \o "_" \o schedule_id

\* get_notification_history: None, or the stored last_sent_at.
GetNotificationHistory(user_id, schedule_id) ==
    LET doc_id == HistoryDocId(user_id, schedule_id)
    IN  IF doc_id \notin DOMAIN notification_history THEN None
        ELSE Some(notification_history[doc_id].last_sent_at)

\* Mutant of CooldownActive: the window is half as long.
CooldownActiveHalf(current_time, last_sent_at) ==
    2 * (current_time - last_sent_at) < CooldownMinutes

\* `time_since_last_sent < timedelta(minutes=10)`
CooldownActive(current_time, last_sent_at) ==
    current_time - last_sent_at < CooldownMinutes

\* Mutant of CanSend: the history entry is never consulted.
CanSendIgnoresHistory(history, current_time) == TRUE

\* can_send_notification after the history check.
CanSend(history, current_time) ==
    IF history # None /\ CooldownActive(current_time, history[1])
    THEN FALSE ELSE TRUE

\* get_fcm_token_by_user_id: None, or the FCMTokenInDB's token.
GetFcmToken(firebase_userid) ==
    IF firebase_userid \notin DOMAIN fcm_token THEN None
    ELSE IF "token" \notin DOMAIN fcm_token[firebase_userid] THEN None
    ELSE Some(fcm_token[firebase_userid].token)

\* Mutant of TokenUsable: only the record is tested, not its token string.
TokenRecordPresent(fcm_token_obj) == fcm_token_obj # None

\* `fcm_token_obj and fcm_token_obj.token`
TokenUsable(fcm_token_obj) == fcm_token_obj # None /\ fcm_token_obj[1] # ""

\* ------------------------------------------------------------ request slots
\* Request slots of the schedule endpoints; SerialCalls handles one at a time.
Calls == {"c1", "c2"}
SerialCalls == {"c1"}

\* A schedule request slot: the handler it runs, its position, its locals
\* (the path's id, the request body, update_data) and its response: status,
\* result, and the call that raised when an exception ended it.
IdleCall ==
    [pc |-> "idle", op |-> "", schedule_id |-> "", body |-> <<>>,
     update_data |-> <<>>, status |-> "", result |-> None, fault |-> ""]

IdleRequest ==
    [pc |-> "idle", firebase_userid |-> "", latitude |-> 0, longitude |-> 0,
     user_schedules |-> <<>>, proximate |-> None, current_time |-> 0,
     history |-> None, token |-> None,
     push_ok |-> FALSE, notification_sent |-> FALSE, detail |-> "",
     history_reads |-> 0, token_reads |-> 0, push_calls |-> 0,
     history_writes |-> 0]

\* return {"notification_sent": ..., "detail": ...}: the handler is finished and
\* its response is what the slot holds.
Finish(r, rec, detail) ==
    req' = [req EXCEPT ![r] = [rec EXCEPT !.pc = "done", !.detail = detail]]

\* The details of the two except clauses, by the call that raised.
ErrorDetails ==
    {"error: schedule fetch", "error: schedule validation",
     "error: history read", "error: token read", "error: history write"}

Init ==
    /\ firebase_apps \in BOOLEAN
    /\ clock = 0
    /\ schedule = <<>>
    /\ allocated = {}
    /\ fcm_token = <<>>
    /\ notification_history = <<>>
    /\ req = [r \in Requests |-> IdleRequest]
    /\ call = [c \in Calls |-> IdleCall]

\* ------------------------------------------------------------- environment
\* The wall clock advances.
Tick(d) ==
    /\ clock + d <= MaxTicks * d
    /\ clock' = clock + d
    /\ UNCHANGED <<firebase_apps, schedule, allocated, fcm_token,
                   notification_history, req, call>>

\* A device stores its token document; the service only reads the collection.
DeviceStoresToken(u, fields) ==
    /\ fcm_token' = [x \in DOMAIN fcm_token \cup {u} |->
                        IF x = u THEN fields ELSE fcm_token[x]]
    /\ UNCHANGED <<firebase_apps, clock, schedule, allocated,
                   notification_history, req, call>>

\* Another writer of the shared collection stores a schedule document that has
\* no geoPoint field.
ClientWritesSchedule(s, u, t) ==
    /\ s \in ScheduleIds \ allocated
    /\ \E dt \in Datetimes :
          schedule' = [x \in DOMAIN schedule \cup {s} |->
                          IF x = s THEN [title |-> t, userId |-> u, content |-> None,
                                        datetime |-> dt]
                          ELSE schedule[x]]
    /\ allocated' = allocated \cup {s}
    /\ UNCHANGED <<firebase_apps, clock, fcm_token, notification_history, req, call>>

\* Another writer of the shared collection stores a complete schedule document
\* under an id it chose itself.
ClientStoresSchedule(s, u, lat, lon, t) ==
    /\ s \in ClientIds \ allocated
    /\ \E dt \in Datetimes :
          schedule' = [x \in DOMAIN schedule \cup {s} |->
                          IF x = s
                          THEN [title |-> t, userId |-> u, content |-> None,
                                geoPoint |-> GeoPoint(lat, lon), datetime |-> dt]
                          ELSE schedule[x]]
    /\ allocated' = allocated \cup {s}
    /\ UNCHANGED <<firebase_apps, clock, fcm_token, notification_history, req, call>>

\* -------------------------------------------------------- schedule endpoints
\* A validated ScheduleCreate body.
ScheduleCreate(t, lat, lon, u, desc, dt) ==
    [name |-> t, latitude |-> lat, longitude |-> lon, firebase_userid |-> u,
     description |-> desc, schedule_datetime |-> dt]

\* firestore_data: the document create_schedule sets.
FirestoreData(schedule_data) ==
    [title |-> schedule_data.name,
     userId |-> schedule_data.firebase_userid,
     content |-> schedule_data.description,
     geoPoint |-> GeoPoint(schedule_data.latitude, schedule_data.longitude),
     datetime |-> schedule_data.schedule_datetime]

\* POST /schedules/: create_schedule writes one document under a generated id.
CreateSchedule(s, u, lat, lon, t) ==
    /\ s \in ScheduleIds \ allocated
    /\ \E dt \in Datetimes :
          schedule' = [x \in DOMAIN schedule \cup {s} |->
                          IF x = s
                          THEN FirestoreData(ScheduleCreate(t, lat, lon, u, None, dt))
                          ELSE schedule[x]]
    /\ allocated' = allocated \cup {s}
    /\ UNCHANGED <<firebase_apps, clock, fcm_token, notification_history, req, call>>

\* --------------------------------------------------------- location endpoint
\* POST /locations/ up to the return of get_schedules_by_user.
Receive(r, u, lat, lon) ==
    /\ req[r].pc = "idle"
    /\ LET rec == [IdleRequest EXCEPT !.firebase_userid = u,
                                      !.latitude = lat, !.longitude = lon]
       IN  IF ~firebase_apps
           THEN Finish(r, rec, "not_initialized")
           ELSE \/ \* the store call raises
                   Finish(r, rec, "error: schedule fetch")
                \/ /\ GetSchedulesRaises(u)
                   /\ Finish(r, rec, "error: schedule validation")
                \/ /\ ~GetSchedulesRaises(u)
                   /\ req' = [req EXCEPT ![r] =
                                [rec EXCEPT !.pc = "match",
                                            !.user_schedules = GetSchedulesByUser(u)]]
    /\ UNCHANGED <<firebase_apps, clock, schedule, allocated, fcm_token,
                   notification_history, call>>

\* The loop over user_schedules and, on a match, current_time = now.  The list
\* is not read after the loop.
FindProximate(r) ==
    /\ req[r].pc = "match"
    /\ LET rec == req[r]
           i == FirstProximate(rec.user_schedules, 1, rec.latitude, rec.longitude)
       IN  IF i = 0
           THEN Finish(r, [rec EXCEPT !.user_schedules = <<>>], "no_match")
           ELSE req' = [req EXCEPT ![r] =
                           [rec EXCEPT !.pc = "history", !.user_schedules = <<>>,
                                       !.proximate = Some(rec.user_schedules[i]),
                                       !.current_time = clock]]
    /\ UNCHANGED <<firebase_apps, clock, schedule, allocated, fcm_token,
                   notification_history, call>>

\* Mutant of CheckCooldown: the read waits while another request of the same
\* pair is between its history read and its history write.
CheckCooldownExclusive(r) ==
    /\ req[r].pc = "history"
    /\ \A o \in Requests \ {r} :
          ~ /\ req[o].pc \in {"token", "push", "record"}
            /\ req[o].firebase_userid = req[r].firebase_userid
            /\ req[o].proximate = req[r].proximate
    /\ LET rec == [req[r] EXCEPT !.history_reads = @ + 1]
           history == GetNotificationHistory(rec.firebase_userid,
                                             rec.proximate[1].id)
       IN  \/ Finish(r, rec, "error: history read")
           \/ /\ ~CanSend(history, rec.current_time)
              /\ Finish(r, [rec EXCEPT !.history = history], "cooldown")
           \/ /\ CanSend(history, rec.current_time)
              /\ req' = [req EXCEPT ![r] =
                           [rec EXCEPT !.pc = "token", !.history = history]]
    /\ UNCHANGED <<firebase_apps, clock, schedule, allocated, fcm_token,
                   notification_history, call>>

\* get_notification_history and the cooldown decision.
CheckCooldown(r) ==
    /\ req[r].pc = "history"
    /\ LET rec == [req[r] EXCEPT !.history_reads = @ + 1]
           history == GetNotificationHistory(rec.firebase_userid,
                                             rec.proximate[1].id)
       IN  \/ Finish(r, rec, "error: history read")
           \/ /\ ~CanSend(history, rec.current_time)
              /\ Finish(r, [rec EXCEPT !.history = history], "cooldown")
           \/ /\ CanSend(history, rec.current_time)
              /\ req' = [req EXCEPT ![r] =
                           [rec EXCEPT !.pc = "token", !.history = history]]
    /\ UNCHANGED <<firebase_apps, clock, schedule, allocated, fcm_token,
                   notification_history, call>>

\* get_fcm_token_by_user_id and the token checks.
FetchToken(r) ==
    /\ req[r].pc = "token"
    /\ LET rec == [req[r] EXCEPT !.token_reads = @ + 1]
           fcm_token_obj == GetFcmToken(rec.firebase_userid)
       IN  \/ Finish(r, rec, "error: token read")
           \/ /\ fcm_token_obj = None
              /\ Finish(r, rec, "no_token_doc")
           \/ /\ fcm_token_obj # None
              /\ ~TokenUsable(fcm_token_obj)
              /\ Finish(r, [rec EXCEPT !.token = fcm_token_obj], "token_missing")
           \/ /\ TokenUsable(fcm_token_obj)
              /\ req' = [req EXCEPT ![r] =
                           [rec EXCEPT !.pc = "push", !.token = fcm_token_obj]]
    /\ UNCHANGED <<firebase_apps, clock, schedule, allocated, fcm_token,
                   notification_history, call>>

\* Mutant of SendPush: a failed send still goes on to record the history.
SendPushRecordsFailure(r) ==
    /\ req[r].pc = "push"
    /\ LET rec == [req[r] EXCEPT !.push_calls = @ + 1]
       IN  \/ req' = [req EXCEPT ![r] =
                        [rec EXCEPT !.pc = "record", !.push_ok = TRUE,
                                    !.notification_sent = TRUE,
                                    !.detail = "sent"]]
           \/ req' = [req EXCEPT ![r] =
                        [rec EXCEPT !.pc = "record", !.detail = "send_failed"]]
    /\ UNCHANGED <<firebase_apps, clock, schedule, allocated, fcm_token,
                   notification_history, call>>

\* send_fcm_proximity_notification: True, or False after a caught exception.
SendPush(r) ==
    /\ req[r].pc = "push"
    /\ LET rec == [req[r] EXCEPT !.push_calls = @ + 1]
       IN  \/ req' = [req EXCEPT ![r] =
                        [rec EXCEPT !.pc = "record", !.push_ok = TRUE,
                                    !.notification_sent = TRUE,
                                    !.detail = "sent"]]
           \/ Finish(r, rec, "send_failed")
    /\ UNCHANGED <<firebase_apps, clock, schedule, allocated, fcm_token,
                   notification_history, call>>

\* Mutant of HistoryFields: the entry is dated one cooldown before the send.
HistoryFieldsBackdated(timestamp) == [last_sent_at |-> timestamp - CooldownMinutes]

\* Mutant of HistoryFields: the time of the write instead of the request's now.
HistoryFieldsAtWrite(timestamp) == [last_sent_at |-> clock]

\* The document update_notification_history sets.
HistoryFields(timestamp) == [last_sent_at |-> timestamp]

\* Mutant of RecordHistory: a raising write takes back notification_sent.
RecordHistoryRollsBack(r) ==
    /\ req[r].pc = "record"
    /\ LET rec == req[r]
           doc_id == HistoryDocId(rec.firebase_userid, rec.proximate[1].id)
       IN  \/ /\ Finish(r, [rec EXCEPT !.notification_sent = FALSE],
                         "error: history write")
              /\ UNCHANGED notification_history
           \/ /\ notification_history' =
                    [x \in DOMAIN notification_history \cup {doc_id} |->
                        IF x = doc_id THEN [last_sent_at |-> rec.current_time]
                        ELSE notification_history[x]]
              /\ Finish(r, [rec EXCEPT !.history_writes = @ + 1], "sent")
    /\ UNCHANGED <<firebase_apps, clock, schedule, allocated, fcm_token, call>>

\* update_notification_history after a successful push.
RecordHistory(r) ==
    /\ req[r].pc = "record"
    /\ LET rec == req[r]
           doc_id == HistoryDocId(rec.firebase_userid, rec.proximate[1].id)
       IN  \/ /\ Finish(r, rec, "error: history write")
              /\ UNCHANGED notification_history
           \/ /\ notification_history' =
                    [x \in DOMAIN notification_history \cup {doc_id} |->
                        IF x = doc_id THEN HistoryFields(rec.current_time)
                        ELSE notification_history[x]]
              /\ Finish(r, [rec EXCEPT !.history_writes = @ + 1], "sent")
    /\ UNCHANGED <<firebase_apps, clock, schedule, allocated, fcm_token, call>>

\* The response is delivered and the slot takes the next request.
Respond(r) ==
    /\ req[r].pc = "done"
    /\ req' = [req EXCEPT ![r] = IdleRequest]
    /\ UNCHANGED <<firebase_apps, clock, schedule, allocated, fcm_token,
                   notification_history, call>>

\* ------------------------------------------------- schedule endpoints (2)
\* Mutant of MergeFields: a field the document already has keeps its value.
MergeFieldsKeepsOld(doc, update_data) ==
    [f \in DOMAIN doc \cup DOMAIN update_data |->
        IF f \in DOMAIN doc THEN doc[f] ELSE update_data[f]]

\* Firestore's update(): the given fields replace or extend the document's.
MergeFields(doc, update_data) ==
    [f \in DOMAIN doc \cup DOMAIN update_data |->
        IF f \in DOMAIN update_data THEN update_data[f] ELSE doc[f]]

\* A dict without the keys in `keys` (the two pops).
WithoutKeys(d, keys) == [f \in DOMAIN d \ keys |-> d[f]]

\* Mutant of FinalCoordinate: a coordinate the body does not give is taken as
\* 0 instead of the stored one.
FinalCoordinateNoMerge(body, doc, field) ==
    IF field \in DOMAIN body THEN Some(body[field]) ELSE Some(0)

\* final_latitude / final_longitude: the new value, else the stored GeoPoint's.
FinalCoordinate(body, doc, field) ==
    IF field \in DOMAIN body THEN Some(body[field])
    ELSE IF HasGeoPoint(doc) THEN Some(doc.geoPoint[field])
    ELSE None

\* update_data as handed to doc_ref.update(): latitude and longitude are
\* replaced by one geoPoint when both final coordinates are known.
UpdateData(body, doc) ==
    IF "latitude" \in DOMAIN body \/ "longitude" \in DOMAIN body
    THEN LET rest == WithoutKeys(body, {"latitude", "longitude"})
             final_latitude == FinalCoordinate(body, doc, "latitude")
             final_longitude == FinalCoordinate(body, doc, "longitude")
         IN  IF final_latitude # None /\ final_longitude # None
             THEN MergeFields(rest, [geoPoint |-> GeoPoint(final_latitude[1],
                                                          final_longitude[1])])
             ELSE rest
    ELSE body

\* PUT /schedules/{id}: update_schedule; an absent document is answered 404
\* and an empty update_data writes nothing.
UpdateSchedule(s, body) ==
    /\ s \in ScheduleIds
    /\ IF s \in DOMAIN schedule /\ DOMAIN UpdateData(body, schedule[s]) # {}
       THEN schedule' = [schedule EXCEPT ![s] = MergeFields(@, UpdateData(body, @))]
       ELSE UNCHANGED schedule
    /\ UNCHANGED <<firebase_apps, clock, allocated, fcm_token,
                   notification_history, req, call>>

\* Mutant of DeleteSchedule: the history entries of the schedule go with it.
DeleteScheduleCascades(s) ==
    /\ s \in ScheduleIds
    /\ IF s \in DOMAIN schedule
       THEN /\ schedule' = [x \in DOMAIN schedule \ {s} |-> schedule[x]]
            /\ notification_history' =
                  [d \in DOMAIN notification_history
                          \ {HistoryDocId(u, s) : u \in Users} |->
                      notification_history[d]]
       ELSE UNCHANGED <<schedule, notification_history>>
    /\ UNCHANGED <<firebase_apps, clock, allocated, fcm_token, req, call>>

\* DELETE /schedules/{id}: delete_schedule; an absent document is answered 404.
DeleteSchedule(s) ==
    /\ s \in ScheduleIds
    /\ IF s \in DOMAIN schedule
       THEN schedule' = [x \in DOMAIN schedule \ {s} |-> schedule[x]]
       ELSE UNCHANGED schedule
    /\ UNCHANGED <<firebase_apps, clock, allocated, fcm_token,
                   notification_history, req, call>>

\* ------------------------------------------------- schedule endpoints (3)
\* The schedule handlers with their responses, split at the awaits on the store.
\* A status "unhandled" is an exception that leaves the endpoint function; the
\* fault names the call that raised it.

\* The endpoint in slot c returns or raises.
Return(c, rec, status, result, fault) ==
    call' = [call EXCEPT ![c] =
               [rec EXCEPT !.pc = "done", !.update_data = <<>>,
                           !.status = status, !.result = result,
                           !.fault = fault]]

\* response_data_dict: firestore_data with the id and the two coordinates, as
\* Schedule(**response_data_dict) reads it through the aliases.
ResponseData(id, firestore_data, schedule_data) ==
    [id |-> id,
     name |-> firestore_data.title,
     firebase_userid |-> firestore_data.userId,
     latitude |-> Some(schedule_data.latitude),
     longitude |-> Some(schedule_data.longitude),
     description |-> firestore_data.content,
     schedule_datetime |-> Some(firestore_data.datetime)]

\* POST /schedules/: create_new_schedule; an exception of create_schedule is
\* caught and answered 500.
CreateNewSchedule(c, s, schedule_data) ==
    /\ call[c].pc = "idle"
    /\ s \in ScheduleIds \ allocated
    /\ LET rec == [IdleCall EXCEPT !.op = "create", !.body = schedule_data]
       IN  \/ /\ Return(c, rec, "500", None, "store")
              /\ UNCHANGED <<schedule, allocated>>
           \/ /\ schedule' = [x \in DOMAIN schedule \cup {s} |->
                                IF x = s THEN FirestoreData(schedule_data)
                                ELSE schedule[x]]
              /\ allocated' = allocated \cup {s}
              /\ Return(c, [rec EXCEPT !.schedule_id = s], "201",
                        Some(ResponseData(s, FirestoreData(schedule_data),
                                          schedule_data)), "")
    /\ UNCHANGED <<firebase_apps, clock, fcm_token, notification_history, req>>

\* GET /schedules/user/{firebase_userid}: read_schedules_by_user.
ReadSchedulesByUser(c, u) ==
    /\ call[c].pc = "idle"
    /\ LET rec == [IdleCall EXCEPT !.op = "list", !.schedule_id = u]
       IN  \/ Return(c, rec, "unhandled", None, "store")
           \/ /\ GetSchedulesRaises(u)
              /\ Return(c, rec, "unhandled", None, "validation")
           \/ /\ ~GetSchedulesRaises(u)
              /\ Return(c, rec, "200", Some(GetSchedulesByUser(u)), "")
    /\ UNCHANGED <<firebase_apps, clock, schedule, allocated, fcm_token,
                   notification_history, req>>

\* get_schedule raises when the stored document fails validation.
GetScheduleRaises(schedule_id) ==
    /\ schedule_id \in DOMAIN schedule
    /\ ~ScheduleValidates(ScheduleDbData(schedule_id, schedule[schedule_id]))

\* get_schedule: None, or the Schedule model of the stored document.
GetSchedule(schedule_id) ==
    IF schedule_id \notin DOMAIN schedule THEN None
    ELSE Some(ScheduleDbData(schedule_id, schedule[schedule_id]))

\* `await get_schedule(...)` and the endpoint's `if ... is None: raise 404`.
AnswerWithSchedule(c, rec) ==
    \/ Return(c, rec, "unhandled", None, "store")
    \/ /\ GetScheduleRaises(rec.schedule_id)
       /\ Return(c, rec, "unhandled", None, "validation")
    \/ /\ ~GetScheduleRaises(rec.schedule_id)
       /\ IF GetSchedule(rec.schedule_id) = None
          THEN Return(c, rec, "404", None, "")
          ELSE Return(c, rec, "200", GetSchedule(rec.schedule_id), "")

\* GET /schedules/{schedule_id}: read_schedule_by_id.
ReadScheduleById(c, s) ==
    /\ call[c].pc = "idle"
    /\ AnswerWithSchedule(c, [IdleCall EXCEPT !.op = "read", !.schedule_id = s])
    /\ UNCHANGED <<firebase_apps, clock, schedule, allocated, fcm_token,
                   notification_history, req>>

\* PUT /schedules/{schedule_id}, up to the return of doc_ref.get() and the
\* construction of update_data from the snapshot.
UpdateExistingSchedule(c, s, body) ==
    /\ call[c].pc = "idle"
    /\ LET rec == [IdleCall EXCEPT !.op = "update", !.schedule_id = s,
                                   !.body = body]
       IN  \/ Return(c, rec, "unhandled", None, "store")
           \/ /\ s \notin DOMAIN schedule
              /\ Return(c, rec, "404", None, "")
           \/ /\ s \in DOMAIN schedule
              /\ LET update_data == UpdateData(body, schedule[s])
                 IN  call' = [call EXCEPT ![c] =
                                [rec EXCEPT !.update_data = update_data,
                                            !.pc = IF DOMAIN update_data = {}
                                                   THEN "update_read"
                                                   ELSE "update_write"]]
    /\ UNCHANGED <<firebase_apps, clock, schedule, allocated, fcm_token,
                   notification_history, req>>

\* `await doc_ref.update(update_data)`: the store raises NotFound when the
\* document does not exist.
UpdateWrite(c) ==
    /\ call[c].pc = "update_write"
    /\ LET rec == call[c]
           s == rec.schedule_id
       IN  \/ /\ Return(c, rec, "unhandled", None, "store")
              /\ UNCHANGED schedule
           \/ /\ s \notin DOMAIN schedule
              /\ Return(c, rec, "unhandled", None, "not found")
              /\ UNCHANGED schedule
           \/ /\ s \in DOMAIN schedule
              /\ schedule' = [schedule EXCEPT ![s] = MergeFields(@, rec.update_data)]
              /\ call' = [call EXCEPT ![c] = [rec EXCEPT !.pc = "update_read"]]
    /\ UNCHANGED <<firebase_apps, clock, allocated, fcm_token,
                   notification_history, req>>

\* `return await get_schedule(db, schedule_id)` of update_schedule and the
\* endpoint's None check.
UpdateRead(c) ==
    /\ call[c].pc = "update_read"
    /\ AnswerWithSchedule(c, call[c])
    /\ UNCHANGED <<firebase_apps, clock, schedule, allocated, fcm_token,
                   notification_history, req>>

\* DELETE /schedules/{schedule_id}, up to the return of doc_ref.get().
RemoveSchedule(c, s) ==
    /\ call[c].pc = "idle"
    /\ LET rec == [IdleCall EXCEPT !.op = "delete", !.schedule_id = s]
       IN  \/ Return(c, rec, "unhandled", None, "store")
           \/ /\ s \notin DOMAIN schedule
              /\ Return(c, rec, "404", None, "")
           \/ /\ s \in DOMAIN schedule
              /\ call' = [call EXCEPT ![c] = [rec EXCEPT !.pc = "delete_write"]]
    /\ UNCHANGED <<firebase_apps, clock, schedule, allocated, fcm_token,
                   notification_history, req>>

\* Mutant of DeleteWrite: success is answered and the document stays.
DeleteWriteKeeps(c) ==
    /\ call[c].pc = "delete_write"
    /\ Return(c, call[c], "204", None, "")
    /\ UNCHANGED <<firebase_apps, clock, schedule, allocated, fcm_token,
                   notification_history, req>>

\* `await doc_ref.delete()`; deleting an absent document succeeds.
DeleteWrite(c) ==
    /\ call[c].pc = "delete_write"
    /\ LET rec == call[c]
           s == rec.schedule_id
       IN  \/ /\ Return(c, rec, "unhandled", None, "store")
              /\ UNCHANGED schedule
           \/ /\ schedule' = [x \in DOMAIN schedule \ {s} |-> schedule[x]]
              /\ Return(c, rec, "204", None, "")
    /\ UNCHANGED <<firebase_apps, clock, allocated, fcm_token,
                   notification_history, req>>

\* The response is delivered and the slot takes the next request.
Reply(c) ==
    /\ call[c].pc = "done"
    /\ call' = [call EXCEPT ![c] = IdleCall]
    /\ UNCHANGED <<firebase_apps, clock, schedule, allocated, fcm_token,
                   notification_history, req>>

\* ------------------------------------------------------------ specifications
\* The steps of the location handler in slot r.
Handle(r) ==
    \/ \E u \in Pingers, lat \in PingLats, lon \in PingLons : Receive(r, u, lat, lon)
    \/ FindProximate(r)
    \/ CheckCooldown(r)
    \/ FetchToken(r)
    \/ SendPush(r)
    \/ RecordHistory(r)
    \/ Respond(r)

Environment ==
    \/ \E d \in TickSteps : Tick(d)
    \/ \E u \in Pingers, t \in TokenStrings : DeviceStoresToken(u, [token |-> t])
    \/ \E u \in Pingers : DeviceStoresToken(u, [platform |-> "ios"])
    \/ \E s \in ScheduleIds, u \in Pingers, t \in Titles : ClientWritesSchedule(s, u, t)

ScheduleRequests ==
    \/ \E s \in ScheduleIds, u \in Users, lat \in LatOffsets, lon \in LonOffsets,
          t \in Titles : CreateSchedule(s, u, lat, lon, t)
    \/ \E s \in ScheduleIds, body \in UpdateBodies : UpdateSchedule(s, body)
    \/ \E s \in ScheduleIds : DeleteSchedule(s)

\* Location updates handled one at a time, among schedule requests.
Next ==
    \/ Environment
    \/ ScheduleRequests
    \/ \E r \in SerialSlots : Handle(r)

Spec == Init /\ [][Next]_vars

\* Bodies of POST /schedules/.
ScheduleCreates ==
    {ScheduleCreate(t, lat, lon, u, desc, dt) :
        t \in Titles, lat \in LatOffsets, lon \in LonOffsets, u \in Users,
        desc \in Descriptions, dt \in Datetimes}

\* Bodies of POST /schedules/ of one user for one place.
PingerCreates ==
    {ScheduleCreate(t, 0, 0, u, None, dt) :
        t \in Titles, u \in Pingers, dt \in Datetimes}

\* The steps of the schedule handlers in slot c, for the given request bodies.
ScheduleCall(c, creates, owners, bodies) ==
    \/ \E s \in ScheduleIds, schedule_data \in creates :
          CreateNewSchedule(c, s, schedule_data)
    \/ \E u \in owners : ReadSchedulesByUser(c, u)
    \/ \E s \in ScheduleIds : ReadScheduleById(c, s)
    \/ \E s \in ScheduleIds, body \in bodies : UpdateExistingSchedule(c, s, body)
    \/ UpdateWrite(c)
    \/ UpdateRead(c)
    \/ \E s \in ScheduleIds : RemoveSchedule(c, s)
    \/ DeleteWrite(c)
    \/ Reply(c)

\* Schedule requests handled one at a time, over a collection another writer
\* also stores documents in.
NextSchedules ==
    \/ \E s \in ScheduleIds, u \in Pingers, t \in Titles : ClientWritesSchedule(s, u, t)
    \/ \E c \in SerialCalls : ScheduleCall(c, ScheduleCreates, Users, PutBodies)

SpecSchedules == Init /\ [][NextSchedules]_vars

\* Schedule requests handled concurrently in both slots.
NextSchedulesConcurrent ==
    \E c \in Calls : ScheduleCall(c, PingerCreates, Pingers, PartialCoordinateBodies)

SpecSchedulesConcurrent == Init /\ [][NextSchedulesConcurrent]_vars

\* Location updates of one user handled concurrently in both slots, over
\* schedules the user created.
NextConcurrent ==
    \/ \E d \in TickSteps : Tick(d)
    \/ \E u \in Pingers, t \in TokenStrings : DeviceStoresToken(u, [token |-> t])
    \/ \E s \in ScheduleIds, u \in Pingers, lat \in LatOffsets, lon \in LonOffsets,
          t \in Titles : CreateSchedule(s, u, lat, lon, t)
    \/ \E r \in Requests : Handle(r)

SpecConcurrent == Init /\ [][NextConcurrent]_vars

\* Location updates of one user handled in both slots but never overlapping:
\* a slot takes a step only while the other is idle or holds its response.
SerialHandle(r) ==
    /\ \A o \in Requests \ {r} : req[o].pc \in {"idle", "done"}
    /\ Handle(r)

NextSerial ==
    \/ \E d \in TickSteps : Tick(d)
    \/ \E u \in Pingers, t \in TokenStrings : DeviceStoresToken(u, [token |-> t])
    \/ \E s \in ScheduleIds, u \in Pingers, lat \in LatOffsets, lon \in LonOffsets,
          t \in Titles : CreateSchedule(s, u, lat, lon, t)
    \/ \E r \in Requests : SerialHandle(r)

SpecSerial == Init /\ [][NextSerial]_vars

\* Location updates that do not overlap, of users whose ids may hold the
\* joining character, over schedules stored under generated and under chosen
\* ids.
KeyHandle(r) ==
    /\ \A o \in Requests \ {r} : req[o].pc \in {"idle", "done"}
    /\ \/ \E u \in KeyUsers, lat \in PingLats, lon \in PingLons :
             Receive(r, u, lat, lon)
       \/ FindProximate(r)
       \/ CheckCooldown(r)
       \/ FetchToken(r)
       \/ SendPush(r)
       \/ RecordHistory(r)
       \/ Respond(r)

NextKeys ==
    \/ \E d \in TickSteps : Tick(d)
    \/ \E u \in KeyUsers, t \in TokenStrings \ {""} :
          DeviceStoresToken(u, [token |-> t])
    \/ \E s \in ScheduleIds, u \in KeyUsers, lat \in PingLats, lon \in PingLons,
          t \in Titles : CreateSchedule(s, u, lat, lon, t)
    \/ \E s \in ClientIds, u \in Pingers, lat \in PingLats, lon \in PingLons,
          t \in Titles : ClientStoresSchedule(s, u, lat, lon, t)
    \/ \E r \in Requests : KeyHandle(r)

SpecKeys == Init /\ [][NextKeys]_vars

\* ------------------------------------------------------------------ claims
InCooldown(r) ==
    /\ req[r].history # None
    /\ req[r].current_time - req[r].history[1] < CooldownMinutes

PairDocId(r) == HistoryDocId(req[r].firebase_userid, req[r].proximate[1].id)

\* C1: a request whose matched schedule has a history entry less than 10
\* minutes older than its now is finished without a send: notification_sent is
\* false, the push sender was not invoked, no token was read and the request
\* wrote no history entry.
C1_CooldownSuppresses ==
    \A r \in Requests :
        InCooldown(r) =>
            /\ req[r].pc = "done"
            /\ ~req[r].notification_sent
            /\ req[r].push_calls = 0
            /\ req[r].token_reads = 0
            /\ req[r].history_writes = 0

\* C1 witness: a request suppressed by an entry written 5 minutes before.
C1_Witness ==
    \E r \in Requests :
        /\ req[r].pc = "done"
        /\ req[r].detail = "cooldown"
        /\ req[r].history # None
        /\ req[r].current_time - req[r].history[1] = 5
        /\ notification_history[PairDocId(r)].last_sent_at = req[r].history[1]

\* The step in which request r's history write returns or raises.
RecordStep(r) == req[r].pc = "record" /\ req'[r].pc = "done"

\* The conditions of a successful send, as request r met them.
SendConditions(r) ==
    /\ req[r].proximate # None
    /\ req[r].history = None
         \/ req[r].current_time - req[r].history[1] >= CooldownMinutes
    /\ req[r].token # None /\ req[r].token[1] # ""
    /\ req[r].push_ok

\* C2 as claimed: a request that met the conditions of a successful send ends
\* with notification_sent true and the pair's entry holding the request's now.
C2_SendAlwaysRecorded ==
    [][\A r \in Requests :
          (RecordStep(r) /\ SendConditions(r)) =>
              /\ req'[r].notification_sent
              /\ PairDocId(r) \in DOMAIN notification_history'
              /\ notification_history'[PairDocId(r)].last_sent_at
                     = req[r].current_time]_vars

\* C2 amended: a cooldown is reported only for an entry less than 10 minutes
\* old, a successful push sets notification_sent, and when the history write
\* that follows does not raise, the pair's entry holds the request's now.
C2_SendRecordedUnlessWriteRaises ==
    /\ [](\A r \in Requests :
            /\ req[r].detail = "cooldown" => InCooldown(r)
            /\ req[r].push_ok => req[r].notification_sent
            /\ req[r].pc = "record" => SendConditions(r))
    /\ [][\A r \in Requests :
            (RecordStep(r) /\ req'[r].detail # "error: history write") =>
                /\ req'[r].notification_sent
                /\ req'[r].history_writes = 1
                /\ PairDocId(r) \in DOMAIN notification_history'
                /\ notification_history'[PairDocId(r)].last_sent_at
                       = req[r].current_time]_vars

\* C2 witness: a send exactly 10 minutes after the previous one, recorded
\* while the clock has moved on since the request took its now.
C2_Witness ==
    \E r \in Requests :
        /\ req[r].pc = "done"
        /\ req[r].notification_sent
        /\ req[r].history_writes = 1
        /\ req[r].history # None
        /\ req[r].current_time - req[r].history[1] = CooldownMinutes
        /\ notification_history[PairDocId(r)].last_sent_at = req[r].current_time

PushFailed(r) == req[r].push_calls > 0 /\ ~req[r].push_ok

\* C3: a request whose push failed invoked the sender once, reports
\* notification_sent false and wrote no history; and a later request of the
\* same pair that read the same history entry and the same token is not held
\* back by a cooldown and invokes the sender.
C3_DispatchFailure ==
    /\ \A r \in Requests :
          PushFailed(r) =>
              /\ req[r].pc = "done"
              /\ req[r].push_calls = 1
              /\ ~req[r].notification_sent
              /\ req[r].history_writes = 0
    /\ \A r1, r2 \in Requests :
          ( /\ r1 # r2
            /\ PushFailed(r1)
            /\ req[r2].pc = "done"
            /\ req[r2].detail \notin ErrorDetails
            /\ req[r2].proximate = req[r1].proximate
            /\ req[r2].firebase_userid = req[r1].firebase_userid
            /\ req[r2].current_time >= req[r1].current_time
            /\ req[r2].history = req[r1].history
            /\ req[r2].token_reads = 1 => req[r2].token = req[r1].token )
          => /\ req[r2].detail # "cooldown"
             /\ req[r2].push_calls = 1

\* C3 witness: a failed push, followed by a request of the same pair that
\* took its now later and was sent.
C3_Witness ==
    \E r1, r2 \in Requests :
        /\ r1 # r2
        /\ PushFailed(r1) /\ req[r1].pc = "done"
        /\ req[r2].pc = "done" /\ req[r2].notification_sent
        /\ req[r2].proximate = req[r1].proximate
        /\ req[r2].history = req[r1].history
        /\ req[r2].current_time > req[r1].current_time

\* C4: a request outside cooldown that read the token and found no record, a
\* record without a token field or an empty token string is finished with
\* notification_sent false, without a push and without a history write.
C4_MissingToken ==
    \A r \in Requests :
        (req[r].token_reads = 1 /\ (req[r].token = None \/ req[r].token[1] = "")) =>
            /\ req[r].pc = "done"
            /\ ~req[r].notification_sent
            /\ req[r].push_calls = 0
            /\ req[r].history_writes = 0

\* C4 witness: a matched request stopped by a token record with an empty token.
C4_Witness ==
    \E r \in Requests :
        /\ req[r].pc = "done"
        /\ req[r].detail = "token_missing"
        /\ req[r].proximate # None
        /\ fcm_token[req[r].firebase_userid].token = ""

\* The step in which request r's loop over the fetched schedules ends.
MatchStep(r) == req[r].pc = "match" /\ req'[r].pc # "match"

\* Positions of the fetched list that hold coordinates at most 100 meters from
\* the update's.
NearPositions(r) ==
    {i \in 1..Len(req[r].user_schedules) :
        LET item == req[r].user_schedules[i]
        IN  /\ item.latitude # None
            /\ item.longitude # None
            /\ (item.latitude[1] - req[r].latitude)
                   * (item.latitude[1] - req[r].latitude)
               + (item.longitude[1] - req[r].longitude)
                   * (item.longitude[1] - req[r].longitude)
               <= ProximityMeters * ProximityMeters}

\* C5: the matched schedule is the one at the least position of the fetched
\* list that is at most 100 meters away; once chosen it stays the request's
\* only matched schedule, and every change of a history entry is the write of
\* a request to the entry of its own matched schedule.
C5_FirstMatchInStoreOrder ==
    /\ [][\A r \in Requests :
            (MatchStep(r) /\ NearPositions(r) # {}) =>
                \E i \in NearPositions(r) :
                    /\ \A k \in NearPositions(r) : i <= k
                    /\ req'[r].proximate = Some(req[r].user_schedules[i])]_vars
    /\ [][\A r \in Requests :
            (req[r].proximate # None /\ req'[r].pc # "idle") =>
                req'[r].proximate = req[r].proximate]_vars
    /\ [][\A d \in DOMAIN notification_history' :
            (d \notin DOMAIN notification_history
               \/ notification_history'[d] # notification_history[d]) =>
                \E r \in Requests : req[r].pc = "record" /\ d = PairDocId(r)]_vars

\* C5 witness: the first schedule, exactly 100 meters away, is matched and in
\* cooldown while the user's next schedule is nearer and has no history.
C5_Witness ==
    \E r \in Requests :
        /\ req[r].pc = "done"
        /\ req[r].detail = "cooldown"
        /\ req[r].proximate[1].id = "s1"
        /\ req[r].proximate[1].latitude = Some(100)
        /\ req[r].proximate[1].longitude = Some(0)
        /\ "s2" \in DOMAIN schedule
        /\ schedule["s2"].userId = req[r].firebase_userid
        /\ HasGeoPoint(schedule["s2"])
        /\ schedule["s2"].geoPoint = GeoPoint(0, 0)
        /\ HistoryDocId(req[r].firebase_userid, "s2")
              \notin DOMAIN notification_history

\* C6: a request without a matched schedule has read no history and no token,
\* made no push and no history write and reports notification_sent false; and
\* a fetched list with no schedule within 100 meters ends the request there.
C6_NoMatchTerminal ==
    /\ [](\A r \in Requests :
            req[r].proximate = None =>
                /\ req[r].pc \in {"idle", "match", "done"}
                /\ ~req[r].notification_sent
                /\ req[r].history_reads = 0
                /\ req[r].token_reads = 0
                /\ req[r].push_calls = 0
                /\ req[r].history_writes = 0)
    /\ [][\A r \in Requests :
            (MatchStep(r) /\ NearPositions(r) = {}) =>
                /\ req'[r].pc = "done"
                /\ req'[r].proximate = None
                /\ ~req'[r].notification_sent
                /\ notification_history' = notification_history]_vars

\* C6 witness: a request finished without a match although the user has a
\* schedule, 100 meters north and 50 meters east of the update.
C6_Witness ==
    \E r \in Requests, s \in DOMAIN schedule :
        /\ req[r].pc = "done"
        /\ req[r].detail = "no_match"
        /\ schedule[s].userId = req[r].firebase_userid
        /\ HasGeoPoint(schedule[s])
        /\ schedule[s].geoPoint = GeoPoint(100, 50)

\* C7 as claimed: a request in which a collaborator call raised is finished
\* with notification_sent false.
C7_ErrorMeansNotSent ==
    \A r \in Requests :
        req[r].detail \in ErrorDetails =>
            req[r].pc = "done" /\ ~req[r].notification_sent

\* C7 amended: a request in which a collaborator call raised is finished with
\* an error detail; notification_sent is false when the schedule fetch, the
\* history read or the token read raised, and true when the history write
\* after a successful push raised; the request wrote no history.
C7_ErrorConversion ==
    \A r \in Requests :
        req[r].detail \in ErrorDetails =>
            /\ req[r].pc = "done"
            /\ req[r].notification_sent = (req[r].detail = "error: history write")
            /\ req[r].detail = "error: history write" => req[r].push_ok
            /\ req[r].history_writes = 0

\* C7 witness: the history write raised after a successful push.
C7_Witness ==
    \E r \in Requests :
        /\ req[r].pc = "done"
        /\ req[r].detail = "error: history write"
        /\ req[r].push_calls = 1
        /\ req[r].notification_sent

\* Request r has read the history and not yet written it.
BetweenReadAndWrite(r) == req[r].pc \in {"token", "push", "record"}

\* C8: the history read and the history write of a request exclude no other
\* request: while one request that read "no history" is between its read and
\* its write and the entry is still absent, another request of the same pair
\* can read "no history" too and go on; and a request that pushed can always
\* write its entry, whatever the store holds by then.
C8_CheckThenActNotAtomic ==
    /\ \A r1, r2 \in Requests :
          ( /\ r1 # r2
            /\ BetweenReadAndWrite(r1)
            /\ req[r1].history = None
            /\ req[r2].pc = "history"
            /\ PairDocId(r2) = PairDocId(r1)
            /\ PairDocId(r1) \notin DOMAIN notification_history )
          => ENABLED ( /\ CheckCooldown(r2)
                       /\ req'[r2].pc = "token"
                       /\ req'[r2].history = None )
    /\ \A r \in Requests :
          req[r].pc = "record" =>
              ENABLED (RecordHistory(r) /\ req'[r].detail = "sent")

\* C8 witness: both requests of one pair read "no history", pushed, wrote and
\* report notification_sent true.
C8_Witness ==
    \E r1, r2 \in Requests :
        /\ r1 # r2
        /\ req[r1].pc = "done" /\ req[r2].pc = "done"
        /\ req[r1].proximate # None
        /\ req[r1].proximate = req[r2].proximate
        /\ req[r1].firebase_userid = req[r2].firebase_userid
        /\ req[r1].history = None /\ req[r2].history = None
        /\ req[r1].push_calls = 1 /\ req[r2].push_calls = 1
        /\ req[r1].history_writes = 1 /\ req[r2].history_writes = 1
        /\ req[r1].notification_sent /\ req[r2].notification_sent

\* The step in which request r is received and its schedule fetch ends.
ReceiveStep(r) == req[r].pc = "idle" /\ req'[r].pc # "idle"

\* Stored schedules of user u with a GeoPoint at most 100 meters from (lat, lon).
ValidNearSchedules(u, lat, lon) ==
    {s \in DOMAIN schedule :
        /\ schedule[s].userId = u
        /\ HasGeoPoint(schedule[s])
        /\ (schedule[s].geoPoint.latitude - lat)
               * (schedule[s].geoPoint.latitude - lat)
           + (schedule[s].geoPoint.longitude - lon)
               * (schedule[s].geoPoint.longitude - lon)
           <= ProximityMeters * ProximityMeters}

\* C9: when the store answers the schedule fetch and the user has a schedule
\* with a GeoPoint within 100 meters, the fetch returns a list holding it,
\* also when another schedule of the user has no geoPoint field.
C9_MalformedScheduleSkipped ==
    [][\A r \in Requests :
          ( /\ ReceiveStep(r)
            /\ firebase_apps
            /\ req'[r].detail # "error: schedule fetch"
            /\ ValidNearSchedules(req'[r].firebase_userid, req'[r].latitude,
                                  req'[r].longitude) # {} )
          => /\ req'[r].pc = "match"
             /\ \E i \in 1..Len(req'[r].user_schedules) :
                   req'[r].user_schedules[i].id
                      \in ValidNearSchedules(req'[r].firebase_userid,
                                             req'[r].latitude,
                                             req'[r].longitude)]_vars

\* C10: a fetch that returns holds exactly the stored schedules whose userId
\* is the requesting user's; a matched schedule is owned by the request's
\* user; and every history entry is the entry of a user and a schedule which,
\* while it is stored, is owned by that user.
C10_OwnerIsolation ==
    /\ [][\A r \in Requests :
            (ReceiveStep(r) /\ req'[r].pc = "match") =>
                /\ {req'[r].user_schedules[i].id :
                        i \in 1..Len(req'[r].user_schedules)}
                     = {s \in DOMAIN schedule :
                           schedule[s].userId = req'[r].firebase_userid}
                /\ \A i \in 1..Len(req'[r].user_schedules) :
                      req'[r].user_schedules[i].firebase_userid
                         = req'[r].firebase_userid]_vars
    /\ [](\A r \in Requests :
            req[r].proximate # None =>
                req[r].proximate[1].firebase_userid = req[r].firebase_userid)
    /\ [](\A d \in DOMAIN notification_history :
            \E u \in Users, s \in allocated :
                /\ d = HistoryDocId(u, s)
                /\ s \in DOMAIN schedule => schedule[s].userId = u)

\* C10 witness: a notification sent and recorded for the user's own schedule
\* while an earlier schedule at the update's coordinates belongs to another
\* user and has no history entry.
C10_Witness ==
    \E r \in Requests :
        /\ req[r].pc = "done"
        /\ req[r].notification_sent
        /\ req[r].history_writes = 1
        /\ req[r].proximate[1].id = "s2"
        /\ "s1" \in DOMAIN schedule
        /\ schedule["s1"].userId # req[r].firebase_userid
        /\ HasGeoPoint(schedule["s1"])
        /\ schedule["s1"].geoPoint = GeoPoint(req[r].latitude, req[r].longitude)
        /\ \A u \in Users : HistoryDocId(u, "s1") \notin DOMAIN notification_history

\* The step in which the update in slot c writes the document.
UpdateWriteStep(c) ==
    call[c].pc = "update_write" /\ call'[c].pc = "update_read"

\* The coordinate fields of a PUT body.
CoordinateFields == {"latitude", "longitude"}

\* C11: the write of an update keeps the set of stored documents and every
\* other document, keeps the document's userId and every field the body does
\* not give, sets the other fields the body gives, never stores a latitude or a
\* longitude outside a geoPoint, sets each component of an existing geoPoint
\* to the body's value when it gives one and leaves it as stored when not, and
\* gives a document without geoPoint one only when the body has both
\* components; and the answer of the update carries the path's id.
C11_PartialUpdateMerge ==
    /\ [][\A c \in Calls :
            UpdateWriteStep(c) =>
                LET s == call[c].schedule_id
                    body == call[c].body
                    old == schedule[s]
                    new == schedule'[s]
                IN  /\ DOMAIN schedule' = DOMAIN schedule
                    /\ \A x \in DOMAIN schedule \ {s} : schedule'[x] = schedule[x]
                    /\ new.userId = old.userId
                    /\ \A f \in DOMAIN old \ {"geoPoint"} :
                          f \notin DOMAIN body => (f \in DOMAIN new /\ new[f] = old[f])
                    /\ \A f \in DOMAIN body \ CoordinateFields :
                          f \in DOMAIN new /\ new[f] = body[f]
                    /\ DOMAIN new \cap CoordinateFields = {}
                    /\ HasGeoPoint(old) =>
                          /\ HasGeoPoint(new)
                          /\ \A f \in CoordinateFields :
                                new.geoPoint[f] = IF f \in DOMAIN body THEN body[f]
                                                  ELSE old.geoPoint[f]
                    /\ ~HasGeoPoint(old) =>
                          IF CoordinateFields \subseteq DOMAIN body
                          THEN /\ HasGeoPoint(new)
                               /\ new.geoPoint = GeoPoint(body.latitude, body.longitude)
                          ELSE ~HasGeoPoint(new)]_vars
    /\ [](\A c \in Calls :
            (call[c].op = "update" /\ call[c].status = "200") =>
                /\ call[c].result[1].id = call[c].schedule_id
                /\ call[c].schedule_id \in DOMAIN schedule
                /\ call[c].result[1].firebase_userid
                      = schedule[call[c].schedule_id].userId)

\* C11 witness: an update that gave only latitude 100 is answered with the
\* new latitude and the longitude 50 the schedule was created with.
C11_Witness ==
    \E c \in Calls :
        /\ call[c].pc = "done"
        /\ call[c].op = "update"
        /\ call[c].body = [latitude |-> 100]
        /\ call[c].status = "200"
        /\ call[c].result[1].latitude = Some(100)
        /\ call[c].result[1].longitude = Some(50)
        /\ schedule[call[c].schedule_id].geoPoint = GeoPoint(100, 50)

\* The step in which a handler of kind op starts in slot c.
StartStep(c, op) == call[c].pc = "idle" /\ call'[c].op = op

\* The step in which the delete in slot c comes back from doc_ref.delete().
DeleteWriteStep(c) == call[c].pc = "delete_write" /\ call'[c].pc = "done"

\* Ids of documents that were stored and are no longer.
Deleted == allocated \ DOMAIN schedule

\* C12: when the store raises nothing, a delete of an id that is not stored is
\* answered 404 and leaves the collection as it is; the write of a delete of a
\* stored id is answered 204 and removes that document and no other; a removed
\* id does not come back; and a read by id of an id that is not stored is
\* answered 404.
C12_DeleteSemantics ==
    /\ [][\A c \in Calls :
            ( /\ StartStep(c, "delete")
              /\ call'[c].schedule_id \notin DOMAIN schedule
              /\ call'[c].fault # "store" )
            => /\ call'[c].pc = "done"
               /\ call'[c].status = "404"
               /\ schedule' = schedule]_vars
    /\ [][\A c \in Calls :
            (DeleteWriteStep(c) /\ call'[c].fault # "store") =>
                /\ call'[c].status = "204"
                /\ call[c].schedule_id \in DOMAIN schedule
                /\ DOMAIN schedule' = DOMAIN schedule \ {call[c].schedule_id}
                /\ \A x \in DOMAIN schedule' : schedule'[x] = schedule[x]]_vars
    /\ [][\A s \in Deleted : s \notin DOMAIN schedule']_vars
    /\ [][\A c \in Calls :
            ( /\ StartStep(c, "read")
              /\ call'[c].schedule_id \notin DOMAIN schedule
              /\ call'[c].fault # "store" )
            => /\ call'[c].pc = "done"
               /\ call'[c].status = "404"]_vars

\* C12 witness: a second delete of a removed id is answered 404 while another
\* schedule is still stored.
C12_Witness ==
    \E c \in Calls :
        /\ call[c].pc = "done"
        /\ call[c].op = "delete"
        /\ call[c].status = "404"
        /\ call[c].schedule_id \in Deleted
        /\ DOMAIN schedule # {}

\* The step in which the create in slot c stores its document and answers 201.
CreateStep(c) == StartStep(c, "create") /\ call'[c].status = "201"

\* A create takes an id that no stored or removed document has, stores the
\* document and answers with that id and the body's name, owner, coordinates,
\* description and datetime; a read by id of the new document gives the same
\* schedule; a read by id that answers gives the stored document; and a stored
\* document changes or goes only in the write of an update or a delete of its
\* id.
CreateReadById ==
    /\ [][\A c \in Calls :
            CreateStep(c) =>
                \E s \in ScheduleIds :
                    /\ s = call'[c].schedule_id
                    /\ s \notin allocated
                    /\ s \notin DOMAIN schedule
                    /\ \A x \in DOMAIN schedule :
                          x \in DOMAIN schedule' /\ schedule'[x] = schedule[x]
                    /\ call'[c].result =
                          Some([id |-> s,
                                name |-> call'[c].body.name,
                                firebase_userid |-> call'[c].body.firebase_userid,
                                latitude |-> Some(call'[c].body.latitude),
                                longitude |-> Some(call'[c].body.longitude),
                                description |-> call'[c].body.description,
                                schedule_datetime
                                    |-> Some(call'[c].body.schedule_datetime)])
                    /\ (~GetScheduleRaises(s))'
                    /\ GetSchedule(s)' = call'[c].result]_vars
    /\ [][\A c \in Calls :
            (StartStep(c, "read") /\ call'[c].status = "200") =>
                call'[c].result = GetSchedule(call'[c].schedule_id)]_vars
    /\ [][\A s \in DOMAIN schedule :
            (s \notin DOMAIN schedule' \/ schedule'[s] # schedule[s]) =>
                \E c \in Calls :
                    /\ call[c].schedule_id = s
                    /\ UpdateWriteStep(c) \/ DeleteWriteStep(c)]_vars

\* C13: create and read by id as above, and right after a create the read by
\* owner of the new schedule's owner gives a list that holds it.
C13_CreateReadRoundTrip ==
    /\ CreateReadById
    /\ [][\A c \in Calls :
            CreateStep(c) =>
                \E u \in Users :
                    /\ u = call'[c].body.firebase_userid
                    /\ (~GetSchedulesRaises(u))'
                    /\ \E i \in 1..Len(GetSchedulesByUser(u)') :
                          GetSchedulesByUser(u)'[i] = call'[c].result[1]]_vars

\* C14: no exception leaves a schedule endpoint, and an update ends with the
\* updated schedule or with 404, also when its document is deleted between
\* its doc_ref.get() and its doc_ref.update().
C14_NoUnhandledFault ==
    \A c \in Calls :
        call[c].pc = "done" =>
            /\ call[c].status # "unhandled"
            /\ call[c].op = "update" => call[c].status \in {"200", "404"}

\* An update whose document was deleted by the other request between its
\* existence check and its write.
UpdateOvertakenByDelete ==
    \E c, d \in Calls :
        /\ c # d
        /\ call[c].pc = "done" /\ call[c].op = "update"
        /\ call[c].fault = "not found"
        /\ call[d].pc = "done" /\ call[d].op = "delete"
        /\ call[d].status = "204"
        /\ call[d].schedule_id = call[c].schedule_id

\* Request r answered notification_sent true and its history write succeeded.
SentAndRecorded(r) ==
    /\ req[r].pc = "done"
    /\ req[r].notification_sent
    /\ req[r].history_writes = 1

\* C15: when location updates do not overlap, two requests that answered
\* notification_sent true for the same user and schedule, each with its
\* history write done, took their now at least 10 minutes apart.
C15_SequentialSpacing ==
    \A r1, r2 \in Requests :
        ( /\ r1 # r2
          /\ SentAndRecorded(r1)
          /\ SentAndRecorded(r2)
          /\ PairDocId(r1) = PairDocId(r2) )
        => \/ req[r1].current_time - req[r2].current_time >= CooldownMinutes
           \/ req[r2].current_time - req[r1].current_time >= CooldownMinutes

\* C15 witness: two sends of one pair, the second exactly 10 minutes after the
\* first, whose entry it read.
C15_Witness ==
    \E r1, r2 \in Requests :
        /\ r1 # r2
        /\ SentAndRecorded(r1)
        /\ SentAndRecorded(r2)
        /\ PairDocId(r1) = PairDocId(r2)
        /\ req[r2].history = Some(req[r1].current_time)
        /\ req[r2].current_time - req[r1].current_time = CooldownMinutes

\* C16: a history entry appears or changes only in the write of a request
\* whose push succeeded, at the entry of that request's user and matched
\* schedule, which that user owns; a request writes history only after its
\* push succeeded; every entry is the entry of a user and a schedule that was
\* stored; and no step removes an entry, the delete of its schedule included.
C16_HistoryProvenance ==
    /\ [][\A d \in DOMAIN notification_history' :
            (d \notin DOMAIN notification_history
               \/ notification_history'[d] # notification_history[d]) =>
                \E r \in Requests :
                    /\ req[r].pc = "record"
                    /\ req[r].push_ok
                    /\ req[r].push_calls = 1
                    /\ req[r].history_writes = 0
                    /\ req'[r].history_writes = 1
                    /\ req[r].proximate[1].firebase_userid = req[r].firebase_userid
                    /\ d = HistoryDocId(req[r].firebase_userid,
                                        req[r].proximate[1].id)]_vars
    /\ [](\A r \in Requests :
            req[r].history_writes > 0 =>
                req[r].push_ok /\ req[r].push_calls = 1)
    /\ [](\A d \in DOMAIN notification_history :
            \E u \in Users, s \in allocated : d = HistoryDocId(u, s))
    /\ [][DOMAIN notification_history \subseteq DOMAIN notification_history']_vars

\* C16 witness: the entry of a send is still stored after its schedule was
\* deleted.
C16_Witness ==
    \E u \in Users, s \in allocated :
        /\ s \notin DOMAIN schedule
        /\ HistoryDocId(u, s) \in DOMAIN notification_history

\* C17 as claimed: no step lowers the last_sent_at of an entry.
C17_MonotoneTimestamp ==
    [][\A d \in DOMAIN notification_history :
          /\ d \in DOMAIN notification_history'
          /\ notification_history'[d].last_sent_at
                >= notification_history[d].last_sent_at]_vars

\* The entry of request r's pair is as r read it.
EntryAsRead(r) ==
    IF PairDocId(r) \in DOMAIN notification_history
    THEN req[r].history = Some(notification_history[PairDocId(r)].last_sent_at)
    ELSE req[r].history = None

\* C17 amended: the history write of a request whose entry is still as the
\* request read it never lowers it, and raises it by at least 10 minutes when
\* the write does not raise; an entry changes only in the write of a request
\* of its pair, to that request's now; and the wall clock never goes back.
C17_MonotoneUnlessOverlapped ==
    /\ [][\A r \in Requests :
            ( /\ RecordStep(r)
              /\ PairDocId(r) \in DOMAIN notification_history
              /\ EntryAsRead(r) )
            => /\ notification_history'[PairDocId(r)].last_sent_at
                     >= notification_history[PairDocId(r)].last_sent_at
               /\ req'[r].detail # "error: history write" =>
                     notification_history'[PairDocId(r)].last_sent_at
                        >= notification_history[PairDocId(r)].last_sent_at
                           + CooldownMinutes]_vars
    /\ [][\A d \in DOMAIN notification_history :
            /\ d \in DOMAIN notification_history'
            /\ notification_history'[d] # notification_history[d] =>
                  \E r \in Requests :
                      /\ RecordStep(r)
                      /\ d = PairDocId(r)
                      /\ notification_history'[d].last_sent_at
                            = req[r].current_time]_vars
    /\ [][clock' >= clock]_vars

\* C17 witness: a request wrote its now over the older entry it had read.
C17_Witness ==
    \E r \in Requests :
        /\ req[r].pc = "done"
        /\ req[r].history_writes = 1
        /\ req[r].history # None
        /\ req[r].current_time > req[r].history[1]
        /\ notification_history[PairDocId(r)].last_sent_at = req[r].current_time

\* A request that took its now earlier wrote after one that took it later.
EntryWentBack ==
    \E r1, r2 \in Requests :
        /\ r1 # r2
        /\ SentAndRecorded(r1) /\ SentAndRecorded(r2)
        /\ PairDocId(r1) = PairDocId(r2)
        /\ req[r1].current_time < req[r2].current_time
        /\ notification_history[PairDocId(r1)].last_sent_at = req[r1].current_time

\* The pairs of owner id and schedule id of the stored schedules.
HeldPairs == {<<schedule[s].userId, s>> : s \in DOMAIN schedule}

WrongPairSuppressed ==
    \E r1, r2 \in Requests :
        /\ r1 # r2
        /\ SentAndRecorded(r1)
        /\ req[r2].pc = "done"
        /\ req[r2].detail = "cooldown"
        /\ req[r2].history = Some(req[r1].current_time)
        /\ req[r1].firebase_userid # req[r2].firebase_userid
        /\ req[r1].proximate[1].id # req[r2].proximate[1].id

\* Slots c1 and c2 hold the answers of two updates of one stored schedule, one
\* that gave only latitude 100 and one that gave only longitude 50.
BothPartialUpdatesDone(c1, c2) ==
    /\ call[c1].pc = "done" /\ call[c1].op = "update"
    /\ call[c2].pc = "done" /\ call[c2].op = "update"
    /\ call[c1].body = [latitude |-> 100]
    /\ call[c2].body = [longitude |-> 50]
    /\ call[c1].status = "200" /\ call[c2].status = "200"
    /\ call[c1].schedule_id = call[c2].schedule_id
    /\ call[c1].schedule_id \in DOMAIN schedule

\* C19 as claimed: after both updates the stored coordinate has the new
\* latitude and the new longitude.
C19_NoLostCoordinateWrite ==
    \A c1, c2 \in Calls :
        BothPartialUpdatesDone(c1, c2) =>
            schedule[call[c1].schedule_id].geoPoint = GeoPoint(100, 50)

\* C19 amended: the write of a partial coordinate update stores the component
\* the body gives together with the other component as the update read it
\* before, whatever is stored by then; and after both updates the stored
\* coordinate has the new latitude or the new longitude.
C19_LastWriterWins ==
    /\ [][\A c \in Calls :
            ( /\ UpdateWriteStep(c)
              /\ DOMAIN call[c].body \cap CoordinateFields # {} )
            => /\ "geoPoint" \in DOMAIN call[c].update_data
               /\ schedule'[call[c].schedule_id].geoPoint
                     = call[c].update_data.geoPoint
               /\ \A f \in CoordinateFields \cap DOMAIN call[c].body :
                     call[c].update_data.geoPoint[f] = call[c].body[f]]_vars
    /\ [][\A c \in Calls :
            ( /\ StartStep(c, "update")
              /\ call'[c].pc = "update_write"
              /\ DOMAIN call'[c].body \cap CoordinateFields # {} )
            => \A f \in CoordinateFields \ DOMAIN call'[c].body :
                  call'[c].update_data.geoPoint[f]
                     = schedule[call'[c].schedule_id].geoPoint[f]]_vars
    /\ [](\A c1, c2 \in Calls :
            BothPartialUpdatesDone(c1, c2) =>
                \/ schedule[call[c1].schedule_id].geoPoint.latitude = 100
                \/ schedule[call[c1].schedule_id].geoPoint.longitude = 50)

\* C19 witness: both updates are answered and the stored coordinate has the
\* new longitude with the latitude the schedule was created with.
C19_Witness ==
    \E c1, c2 \in Calls :
        /\ BothPartialUpdatesDone(c1, c2)
        /\ schedule[call[c1].schedule_id].geoPoint = GeoPoint(0, 50)

====
